---- MODULE Spec2Model ----
\* Model of packages/page-calendar/src/useScheduled.ts: the hook that turns
\* the chain datasets delivered by useCall into the aggregate list of
\* upcoming calendar entries.
\*
\* Optional values (a useCall result that has not arrived, an absent chain
\* constant, an Option) are sequences of length 0 or 1: None is "undefined",
\* Some(v) is the value v.  Strings are sequences of character codes.
EXTENDS Integers, Sequences, FiniteSets

\* ---------------------------------------------------------------- bounds
MaxLen == 2         \* longest dataset list delivered by the node
MaxBlock == 2       \* highest block number: best block, duration constants
MaxUpdates == 3     \* number of dataset deliveries in one behaviour

VARIABLES
  bestNumber,       \* useCall(api.derive.chain.bestNumber)
  councilMotions,   \* useCall(api.derive.council.proposals)
  dispatches,       \* useCall(api.derive.democracy.dispatchQueue)
  referendums,      \* useCall(api.derive.democracy.referendums)
  scheduled,        \* useCall(api.query.scheduler.agenda.entries)
  sessionInfo,      \* useCall(api.derive.session.progress)
  slashes,          \* useCall(api.query.staking.unappliedSlashes.entries)
  api,              \* the chain constants read through api.consts
  blockTime,        \* useBlockTime()
  state,            \* useState<EntryInfo[]>([])
  pending,          \* effects whose dependencies changed in the last render
  crashed,          \* an updater threw: the component is unmounted
  updates,          \* number of deliveries so far
  last              \* the effect that ran in the last step, and how it ended

vars == <<bestNumber, councilMotions, dispatches, referendums, scheduled,
          sessionInfo, slashes, api, blockTime, state, pending, crashed,
          updates, last>>

datasets == <<bestNumber, councilMotions, dispatches, referendums, scheduled,
              sessionInfo, slashes>>

\* ------------------------------------------------------------ optionals
None == <<>>
Some(v) == <<v>>
IsSome(o) == Len(o) = 1
Unwrap(o) == o[1]

Range(s) == {s[i] : i \in DOMAIN s}

RECURSIVE Flatten(_)
Flatten(ss) == IF ss = <<>> THEN <<>> ELSE Head(ss) \o Flatten(Tail(ss))

\* ---------------------------------------------------------------- entries
\* The label of an entry: null, a number, or a string.
InfoNull == [kind |-> "null", val |-> <<>>]
InfoNum(n) == [kind |-> "number", val |-> <<n>>]
InfoStr(s) == [kind |-> "string", val |-> s]

\* Date.now() + remaining * blockTime; date and dateTime are the same instant.
newDate(remaining, bt, clock) == clock + remaining * bt

\* One EntryInfo.  isPending is FALSE where the source leaves it undefined.
Entry(type, blockNumber, blocks, info, isPending, bt, clock) ==
  [type |-> type, blockNumber |-> blockNumber, blocks |-> blocks,
   info |-> info, isPending |-> isPending,
   dateTime |-> newDate(blocks, bt, clock)]

\* ------------------------------------------------------- text conversions
HexChar(d) == IF d < 10 THEN 48 + d ELSE 87 + d
Prefix0x == <<48, 120>>
Ellipsis == 8230

\* hash.toHex(): "0x" followed by the hex digits of the hash.
HashToHex(hash) == Prefix0x \o [k \in DOMAIN hash |-> HexChar(hash[k])]

\* String.prototype.substr(0, n) and substr(-n).
SubstrHead(s, n) == SubSeq(s, 1, IF n < Len(s) THEN n ELSE Len(s))
SubstrTail(s, n) == SubSeq(s, IF Len(s) > n THEN Len(s) - n + 1 ELSE 1, Len(s))

\* Bytes.toHex(): "0x" followed by two hex digits per byte.
BytesToHex(bytes) ==
  Prefix0x \o [k \in 1..(2 * Len(bytes)) |->
                 IF k % 2 = 1 THEN HexChar(bytes[(k + 1) \div 2] \div 16)
                              ELSE HexChar(bytes[k \div 2] % 16)]

\* Bytes.isAscii: every byte is printable ASCII or tab, LF, CR.
IsAscii(bytes) ==
  \A k \in DOMAIN bytes :
    (bytes[k] >= 32 /\ bytes[k] < 127) \/ bytes[k] \in {9, 10, 13}

\* Bytes.toUtf8() of ASCII bytes: the characters with those codes.
BytesToUtf8(bytes) == bytes

\* ------------------------------------------------- per-category derivation
ConstTypes == <<"councilElection", "democracyLaunch", "societyChallenge",
                "societyRotate", "treasurySpend">>

\* The [type, duration?] items handed to createConstDurations.
ConstItems == [k \in DOMAIN ConstTypes |-> <<ConstTypes[k], api.durations[ConstTypes[k]]>>]

\* bestNumber.mod(duration) asserts on a zero divisor.
ConstDurationsThrows(items) ==
  \E k \in DOMAIN items : IsSome(items[k][2]) /\ Unwrap(items[k][2]) = 0

\* Variant: the offset into the period taken for the blocks that remain.
createConstDurationsElapsed(best, bt, items, clock) ==
  [k \in DOMAIN items |->
     LET type == items[k][1]
         duration == items[k][2]
     IN  IF ~IsSome(duration)
         THEN <<type, <<>>>>
         ELSE LET blocks == best % Unwrap(duration)
              IN  <<type, <<Entry(type, best + blocks, blocks, InfoNull,
                                  FALSE, bt, clock)>>>>]

createConstDurations(best, bt, items, clock) ==
  [k \in DOMAIN items |->
     LET type == items[k][1]
         duration == items[k][2]
     IN  IF ~IsSome(duration)
         THEN <<type, <<>>>>
         ELSE LET blocks == Unwrap(duration) - (best % Unwrap(duration))
              IN  <<type, <<Entry(type, best + blocks, blocks, InfoNull,
                                  FALSE, bt, clock)>>>>]

\* map to a pair or null, then filter the nulls out.
createCouncilMotions(best, bt, motions, clock) ==
  LET withVotes == SelectSeq(motions, LAMBDA m : IsSome(m.votes))
  IN  [k \in DOMAIN withVotes |->
         LET hashStr == HashToHex(withVotes[k].hash)
             end == Unwrap(withVotes[k].votes).end
             blocks == end - best
         IN  <<"councilMotion",
               <<Entry("councilMotion", end, blocks,
                       InfoStr(SubstrHead(hashStr, 6) \o <<Ellipsis>>
                               \o SubstrTail(hashStr, 4)),
                       FALSE, bt, clock)>>>>]

createDispatches(best, bt, queue, clock) ==
  [k \in DOMAIN queue |->
     LET blocks == queue[k].at - best
     IN  <<"democracyDispatch",
           <<Entry("democracyDispatch", queue[k].at, blocks,
                   InfoNum(queue[k].index), FALSE, bt, clock)>>>>]

\* reduce pushing two pairs per referendum.
createReferendums(best, bt, refs, clock) ==
  Flatten([k \in DOMAIN refs |->
     LET status == refs[k].status
         enactBlocks == status.end + status.delay - best
         voteBlocks == status.end - best - 1
     IN  << <<"referendumVote",
              <<Entry("referendumVote", best + voteBlocks, voteBlocks,
                      InfoNum(refs[k].index), FALSE, bt, clock)>>>>,
            <<"referendumDispatch",
              <<Entry("referendumDispatch", best + enactBlocks, enactBlocks,
                      InfoNum(refs[k].index), TRUE, bt, clock)>>>> >>])

\* Variant: the session pair carries the tag of the slash pair.
createStakingInfoMistagged(best, bt, info, unapplied, slashDeferDuration, clock) ==
  LET remainingEra == info.eraLength - info.eraProgress
      remainingSes == info.sessionLength - info.sessionProgress
      \* slashDuration is undefined exactly when slashDeferDuration is; a BN
      \* of value zero is an object, hence truthy.
      slashEras ==
        IF IsSome(slashDeferDuration)
        THEN LET slashDuration == Unwrap(slashDeferDuration) * info.eraLength
                 nonEmpty == SelectSeq(unapplied, LAMBDA e : Len(e.values) > 0)
             IN  [k \in DOMAIN nonEmpty |->
                    LET eraIndex == nonEmpty[k].era
                        blockProgress == (info.activeEra - eraIndex - 1)
                                           * info.eraLength + info.eraProgress
                        blocks == slashDuration - blockProgress
                    IN  Entry("stakingSlash", best + blocks, blocks,
                              InfoNum(eraIndex), FALSE, bt, clock)]
        ELSE <<>>
  IN  << <<"stakingEra",
           <<Entry("stakingEra", best + remainingEra, remainingEra,
                   InfoNum(info.activeEra + 1), FALSE, bt, clock)>>>>,
         <<"stakingSlash",
           <<Entry("stakingSession", best + remainingSes, remainingSes,
                   InfoNum(info.currentIndex + 1), FALSE, bt, clock)>>>>,
         <<"stakingSlash", slashEras>> >>

\* Variant: the age of a slash counted from its own era.
createStakingInfoSameEra(best, bt, info, unapplied, slashDeferDuration, clock) ==
  LET remainingEra == info.eraLength - info.eraProgress
      remainingSes == info.sessionLength - info.sessionProgress
      \* slashDuration is undefined exactly when slashDeferDuration is; a BN
      \* of value zero is an object, hence truthy.
      slashEras ==
        IF IsSome(slashDeferDuration)
        THEN LET slashDuration == Unwrap(slashDeferDuration) * info.eraLength
                 nonEmpty == SelectSeq(unapplied, LAMBDA e : Len(e.values) > 0)
             IN  [k \in DOMAIN nonEmpty |->
                    LET eraIndex == nonEmpty[k].era
                        blockProgress == (info.activeEra - eraIndex)
                                           * info.eraLength + info.eraProgress
                        blocks == slashDuration - blockProgress
                    IN  Entry("stakingSlash", best + blocks, blocks,
                              InfoNum(eraIndex), FALSE, bt, clock)]
        ELSE <<>>
  IN  << <<"stakingEra",
           <<Entry("stakingEra", best + remainingEra, remainingEra,
                   InfoNum(info.activeEra + 1), FALSE, bt, clock)>>>>,
         <<"stakingSession",
           <<Entry("stakingSession", best + remainingSes, remainingSes,
                   InfoNum(info.currentIndex + 1), FALSE, bt, clock)>>>>,
         <<"stakingSlash", slashEras>> >>

createStakingInfo(best, bt, info, unapplied, slashDeferDuration, clock) ==
  LET remainingEra == info.eraLength - info.eraProgress
      remainingSes == info.sessionLength - info.sessionProgress
      \* slashDuration is undefined exactly when slashDeferDuration is; a BN
      \* of value zero is an object, hence truthy.
      slashEras ==
        IF IsSome(slashDeferDuration)
        THEN LET slashDuration == Unwrap(slashDeferDuration) * info.eraLength
                 nonEmpty == SelectSeq(unapplied, LAMBDA e : Len(e.values) > 0)
             IN  [k \in DOMAIN nonEmpty |->
                    LET eraIndex == nonEmpty[k].era
                        blockProgress == (info.activeEra - eraIndex - 1)
                                           * info.eraLength + info.eraProgress
                        blocks == slashDuration - blockProgress
                    IN  Entry("stakingSlash", best + blocks, blocks,
                              InfoNum(eraIndex), FALSE, bt, clock)]
        ELSE <<>>
  IN  << <<"stakingEra",
           <<Entry("stakingEra", best + remainingEra, remainingEra,
                   InfoNum(info.activeEra + 1), FALSE, bt, clock)>>>>,
         <<"stakingSession",
           <<Entry("stakingSession", best + remainingSes, remainingSes,
                   InfoNum(info.currentIndex + 1), FALSE, bt, clock)>>>>,
         <<"stakingSlash", slashEras>> >>

\* One agenda slot: an entry per task that isSome, labelled with its id.
SlotEntries(best, bt, slot, clock) ==
  LET tasks == SelectSeq(slot.tasks, LAMBDA t : IsSome(t))
  IN  [k \in DOMAIN tasks |->
         LET idOrNull == Unwrap(tasks[k]).maybeId
             blocks == slot.block - best
         IN  Entry("scheduler", slot.block, blocks,
                   IF IsSome(idOrNull)
                   THEN IF IsAscii(Unwrap(idOrNull))
                        THEN InfoStr(BytesToUtf8(Unwrap(idOrNull)))
                        ELSE InfoStr(BytesToHex(Unwrap(idOrNull)))
                   ELSE InfoNull,
                   FALSE, bt, clock)]

createScheduled(best, bt, agenda, clock) ==
  LET populated == SelectSeq(agenda,
                     LAMBDA s : \E k \in DOMAIN s.tasks : IsSome(s.tasks[k]))
  IN  << <<"scheduler",
           Flatten([k \in DOMAIN populated |->
                      SlotEntries(best, bt, populated[k], clock)])>> >>

\* --------------------------------------------------------------- the merge
\* types.reduce((state, [typeFilter, items]) =>
\*   state.filter(({ type }) => type !== typeFilter).concat(...items), state)
\* Variant: the filter keeps the entries of the pair's type.
RECURSIVE addFilteredInverted(_, _)
addFilteredInverted(st, types) ==
  IF types = <<>>
  THEN st
  ELSE addFilteredInverted(
         SelectSeq(st, LAMBDA e : e.type = Head(types)[1]) \o Head(types)[2],
         Tail(types))

\* Variant: each pair's entries take the place of the whole list.
RECURSIVE addFilteredReplace(_, _)
addFilteredReplace(st, types) ==
  IF types = <<>>
  THEN st
  ELSE addFilteredReplace(Head(types)[2], Tail(types))

\* Variant: no filter, the entries are appended.
RECURSIVE addFilteredAppend(_, _)
addFilteredAppend(st, types) ==
  IF types = <<>>
  THEN st
  ELSE addFilteredAppend(st \o Head(types)[2], Tail(types))

RECURSIVE addFiltered(_, _)
addFiltered(st, types) ==
  IF types = <<>>
  THEN st
  ELSE addFiltered(
         SelectSeq(st, LAMBDA e : e.type # Head(types)[1]) \o Head(types)[2],
         Tail(types))

\* ------------------------------------------------- values the node delivers
\* A hash is 32 bytes, written as 64 hex digits.
HashOf(i) == [k \in 1..(32 * 2) |-> (k * i + i) % 16]

\* n motions; when lastOpen, the last one has no voting period recorded yet.
MotionsOf(n, lastOpen) ==
  [i \in 1..n |-> [hash |-> HashOf(i),
                   votes |-> IF lastOpen /\ i = n THEN None
                             ELSE Some([end |-> 20 * i])]]

DispatchesOf(n) == [i \in 1..n |-> [at |-> 10 * i, index |-> i]]

ReferendumsOf(n) ==
  [i \in 1..n |-> [index |-> i, status |-> [end |-> 1000 * i, delay |-> 200 * i]]]

\* Agenda slots: tasks that are None, that carry no id, a printable id, a
\* binary id.
TaskShapes == << <<None, Some([maybeId |-> Some(<<104, 105>>)])>>,
                 <<Some([maybeId |-> None]), Some([maybeId |-> Some(<<1, 255>>)])>>,
                 <<None>> >>

ScheduledOf(n) ==
  [i \in 1..n |-> [block |-> 30 * i, tasks |-> TaskShapes[((i - 1) % 3) + 1]]]

\* Unapplied slashes keyed by era 5, 6, ...; every second key has no slash.
SlashesOf(n) ==
  [i \in 1..n |-> [era |-> 4 + i, values |-> [j \in 1..(i % 2) |-> j]]]

\* Era 7 of 100 blocks, 30 blocks in; sessions of the given length.
SessionInfoOf(sessionLength) ==
  [eraLength |-> 100, eraProgress |-> 30,
   sessionLength |-> sessionLength,
   sessionProgress |-> IF sessionLength > 0 THEN sessionLength - 1 ELSE 0,
   activeEra |-> 7, currentIndex |-> 42]

BestValues == 0..MaxBlock
MotionValues == {MotionsOf(n, o) : n \in 0..MaxLen, o \in BOOLEAN}
DispatchValues == {DispatchesOf(n) : n \in 0..MaxLen}
ReferendumValues == {ReferendumsOf(n) : n \in 0..MaxLen}
ScheduledValues == {ScheduledOf(n) : n \in 0..MaxLen}
SlashValues == {SlashesOf(n) : n \in 0..MaxLen}
SessionValues == {SessionInfoOf(l) : l \in 0..MaxLen}

DurationValues == {None} \cup {Some(d) : d \in 0..MaxBlock}

\* The pallets whose queries the hook subscribes to when the chain has them
\* (api.derive.council?.proposals, api.derive.democracy?.dispatchQueue, ...).
Pallets == {"council", "democracy", "scheduler", "staking"}

\* The runtime: its pallets, and its constants, where the duration constants
\* and the slash deferral are all absent, or all present with the same
\* number of blocks and of eras: zero, or the largest.
ApiOf(pallets, d) ==
  [pallets |-> pallets,
   durations |-> [t \in Range(ConstTypes) |-> d],
   slashDeferDuration |-> d]

ApiDurations == {None, Some(0), Some(MaxBlock)}

ApiValues == {ApiOf(Pallets, d) : d \in ApiDurations}

\* A chain with the staking pallet only (no council, democracy, scheduler).
StakingApiValues == {ApiOf({"staking"}, d) : d \in ApiDurations}

\* A chain without the subscribed pallets, every choice of the constants.
DurationsApiValues ==
  {[pallets |-> {}, durations |-> f, slashDeferDuration |-> None] :
     f \in [Range(ConstTypes) -> DurationValues]}

\* Deliveries explored in one behaviour: one more on a single-pallet chain.
Budget == IF Cardinality(api.pallets) <= 1 THEN MaxUpdates + 1 ELSE MaxUpdates

\* ----------------------------------------------------------------- effects
\* The six useEffect calls, in the order the hook declares them.
Effects == <<"dispatches", "councilMotions", "referendums", "scheduled",
             "staking", "constDurations">>

EffectSet == Range(Effects)

Order(e) == CHOOSE k \in DOMAIN Effects : Effects[k] = e

\* React flushes the effects of one render in declaration order.
IsFirst(e) == e \in pending /\ \A f \in pending : Order(e) <= Order(f)

NoEffect == [effect |-> "none", applied |-> FALSE, threw |-> FALSE]
Skipped(e) == [effect |-> e, applied |-> FALSE, threw |-> FALSE]
Applied(e) == [effect |-> e, applied |-> TRUE, threw |-> FALSE]
Threw(e) == [effect |-> e, applied |-> FALSE, threw |-> TRUE]

\* Variant: the staking effect accepts any session that has a length.
RunsAnySession(e) ==
  /\ IsSome(bestNumber)
  /\ CASE e = "dispatches" -> IsSome(dispatches)
       [] e = "councilMotions" -> IsSome(councilMotions)
       [] e = "referendums" -> IsSome(referendums)
       [] e = "scheduled" -> IsSome(scheduled)
       [] e = "staking" -> /\ IsSome(sessionInfo)
                           /\ Unwrap(sessionInfo).sessionLength > 0
                           /\ IsSome(slashes)
       [] e = "constDurations" -> TRUE

\* The condition in front of setState in each effect.
Runs(e) ==
  /\ IsSome(bestNumber)
  /\ CASE e = "dispatches" -> IsSome(dispatches)
       [] e = "councilMotions" -> IsSome(councilMotions)
       [] e = "referendums" -> IsSome(referendums)
       [] e = "scheduled" -> IsSome(scheduled)
       [] e = "staking" -> /\ IsSome(sessionInfo)
                           /\ Unwrap(sessionInfo).sessionLength > 1
                           /\ IsSome(slashes)
       [] e = "constDurations" -> TRUE

\* The [type, entries] pairs the effect's updater hands to addFiltered.
Types(e, clock) ==
  CASE e = "dispatches" ->
         createDispatches(Unwrap(bestNumber), blockTime, Unwrap(dispatches), clock)
    [] e = "councilMotions" ->
         createCouncilMotions(Unwrap(bestNumber), blockTime, Unwrap(councilMotions), clock)
    [] e = "referendums" ->
         createReferendums(Unwrap(bestNumber), blockTime, Unwrap(referendums), clock)
    [] e = "scheduled" ->
         createScheduled(Unwrap(bestNumber), blockTime, Unwrap(scheduled), clock)
    [] e = "staking" ->
         createStakingInfo(Unwrap(bestNumber), blockTime, Unwrap(sessionInfo),
                           Unwrap(slashes), api.slashDeferDuration, clock)
    [] e = "constDurations" ->
         createConstDurations(Unwrap(bestNumber), blockTime, ConstItems, clock)

Throws(e) == e = "constDurations" /\ ConstDurationsThrows(ConstItems)

\* Date.now(): the updaters queued by one delivery run in the same render,
\* and every render is one tick later than the one before.
Clock == updates

\* One effect: nothing when its data is missing, otherwise the updater
\* state => addFiltered(state, create...(...)).
RunEffect(e) ==
  /\ ~crashed
  /\ e \in pending
  /\ pending' = pending \ {e}
  /\ IF ~Runs(e)
     THEN /\ last' = Skipped(e)
          /\ UNCHANGED <<state, crashed>>
     ELSE IF Throws(e)
     THEN /\ last' = Threw(e)
          /\ crashed' = TRUE
          /\ UNCHANGED state
     ELSE /\ state' = addFiltered(state, Types(e, Clock))
          /\ last' = Applied(e)
          /\ UNCHANGED crashed
  /\ UNCHANGED <<datasets, api, blockTime, updates>>

EffectDispatches == RunEffect("dispatches")
EffectCouncilMotions == RunEffect("councilMotions")
EffectReferendums == RunEffect("referendums")
EffectScheduled == RunEffect("scheduled")
EffectStaking == RunEffect("staking")
EffectConstDurations == RunEffect("constDurations")

\* -------------------------------------------------------------- deliveries
\* useCall hands over a new value: the component renders again and the
\* effects that depend on the value are queued.
Deliver(deps) ==
  /\ ~crashed
  /\ pending = {}
  /\ updates < Budget
  /\ updates' = updates + 1
  /\ pending' = deps
  /\ last' = NoEffect
  /\ UNCHANGED <<api, blockTime, state, crashed>>

SetBestNumber ==
  /\ \E b \in BestValues : bestNumber' = Some(b)
  /\ Deliver(EffectSet)
  /\ UNCHANGED <<councilMotions, dispatches, referendums, scheduled, sessionInfo, slashes>>

SetDispatches ==
  /\ "democracy" \in api.pallets
  /\ \E v \in DispatchValues : dispatches' = Some(v)
  /\ Deliver({"dispatches"})
  /\ UNCHANGED <<bestNumber, councilMotions, referendums, scheduled, sessionInfo, slashes>>

SetCouncilMotions ==
  /\ "council" \in api.pallets
  /\ \E v \in MotionValues : councilMotions' = Some(v)
  /\ Deliver({"councilMotions"})
  /\ UNCHANGED <<bestNumber, dispatches, referendums, scheduled, sessionInfo, slashes>>

SetReferendums ==
  /\ "democracy" \in api.pallets
  /\ \E v \in ReferendumValues : referendums' = Some(v)
  /\ Deliver({"referendums"})
  /\ UNCHANGED <<bestNumber, councilMotions, dispatches, scheduled, sessionInfo, slashes>>

SetScheduled ==
  /\ "scheduler" \in api.pallets
  /\ \E v \in ScheduledValues : scheduled' = Some(v)
  /\ Deliver({"scheduled"})
  /\ UNCHANGED <<bestNumber, councilMotions, dispatches, referendums, sessionInfo, slashes>>

SetSessionInfo ==
  /\ "staking" \in api.pallets
  /\ \E v \in SessionValues : sessionInfo' = Some(v)
  /\ Deliver({"staking"})
  /\ UNCHANGED <<bestNumber, councilMotions, dispatches, referendums, scheduled, slashes>>

SetSlashes ==
  /\ "staking" \in api.pallets
  /\ \E v \in SlashValues : slashes' = Some(v)
  /\ Deliver({"staking"})
  /\ UNCHANGED <<bestNumber, councilMotions, dispatches, referendums, scheduled, sessionInfo>>

\* ---------------------------------------------------------- specifications
\* The first render: nothing has arrived, the list is empty and the six
\* effects are about to run for the first time.
Init ==
  /\ bestNumber = None
  /\ councilMotions = None
  /\ dispatches = None
  /\ referendums = None
  /\ scheduled = None
  /\ sessionInfo = None
  /\ slashes = None
  /\ api \in ApiValues \cup StakingApiValues
  /\ blockTime = 6
  /\ state = <<>>
  /\ pending = EffectSet
  /\ crashed = FALSE
  /\ updates = 0
  /\ last = NoEffect

Next ==
  \/ SetBestNumber
  \/ SetDispatches
  \/ SetCouncilMotions
  \/ SetReferendums
  \/ SetScheduled
  \/ SetSessionInfo
  \/ SetSlashes
  \/ IsFirst("dispatches") /\ EffectDispatches
  \/ IsFirst("councilMotions") /\ EffectCouncilMotions
  \/ IsFirst("referendums") /\ EffectReferendums
  \/ IsFirst("scheduled") /\ EffectScheduled
  \/ IsFirst("staking") /\ EffectStaking
  \/ IsFirst("constDurations") /\ EffectConstDurations

Spec == Init /\ [][Next]_vars

\* Fixed inputs, every dataset present, the six refreshes applied once each
\* in any order.
InitOrder ==
  /\ bestNumber \in {Some(b) : b \in BestValues}
  /\ \E n \in 0..MaxLen, o \in BOOLEAN :
       /\ councilMotions = Some(MotionsOf(n, o))
       /\ dispatches = Some(DispatchesOf(n))
       /\ referendums = Some(ReferendumsOf(n))
       /\ scheduled = Some(ScheduledOf(n))
       /\ slashes = Some(SlashesOf(n))
  /\ sessionInfo \in {Some(v) : v \in SessionValues}
  /\ api \in ApiValues
  /\ blockTime = 6
  /\ state = <<>>
  /\ pending = EffectSet
  /\ crashed = FALSE
  /\ updates = MaxUpdates
  /\ last = NoEffect

NextOrder ==
  \/ EffectDispatches
  \/ EffectCouncilMotions
  \/ EffectReferendums
  \/ EffectScheduled
  \/ EffectStaking
  \/ EffectConstDurations

SpecOrder == InitOrder /\ [][NextOrder]_vars

\* createConstDurations on its own: any best block, any combination of
\* duration constants, on a chain without the subscribed pallets.
InitDurations ==
  /\ bestNumber \in {Some(b) : b \in BestValues}
  /\ councilMotions = None
  /\ dispatches = None
  /\ referendums = None
  /\ scheduled = None
  /\ sessionInfo = None
  /\ slashes = None
  /\ api \in DurationsApiValues
  /\ blockTime = 6
  /\ state = <<>>
  /\ pending = {"constDurations"}
  /\ crashed = FALSE
  /\ updates = MaxUpdates + 1
  /\ last = NoEffect

NextDurations == EffectConstDurations

SpecDurations == InitDurations /\ [][NextDurations]_vars

\* ------------------------------------------------------------- properties
\* The categories each dataset's derivation produces.
EffectTags(e) ==
  CASE e = "dispatches" -> {"democracyDispatch"}
    [] e = "councilMotions" -> {"councilMotion"}
    [] e = "referendums" -> {"referendumVote", "referendumDispatch"}
    [] e = "scheduled" -> {"scheduler"}
    [] e = "staking" -> {"stakingEra", "stakingSession", "stakingSlash"}
    [] e = "constDurations" -> Range(ConstTypes)

OfType(st, t) == SelectSeq(st, LAMBDA x : x.type = t)

Count(t) == Len(OfType(state, t))

\* The entries the effect derives from the values now held.
Derived(e) == Flatten([k \in DOMAIN Types(e, Clock) |-> Types(e, Clock)[k][2]])

\* The tags of the pairs the effect hands to addFiltered.
PairTags(e) == {Types(e, Clock)[k][1] : k \in DOMAIN Types(e, Clock)}

\* An entry without its wall-clock date.
StripDate(x) ==
  [type |-> x.type, blockNumber |-> x.blockNumber, blocks |-> x.blocks,
   info |-> x.info, isPending |-> x.isPending]

StripDates(st) == [i \in DOMAIN st |-> StripDate(st[i])]

BagOf(st) == [x \in Range(st) |-> Cardinality({i \in DOMAIN st : st[i] = x})]

\* The effect has just been applied (its data was present, nothing thrown).
JustApplied(e) == last = Applied(e)

\* C1: right after a refresh is applied, every entry of a category that the
\* refreshed dataset produces is derived from the dataset's current value;
\* none computed from an earlier value remains (an empty list included).
C1_NoStaleEntries ==
  last.applied =>
    \A i \in DOMAIN state :
      state[i].type \in EffectTags(last.effect) =>
        state[i] \in Range(Derived(last.effect))

\* C2: after the council-motion refresh the list holds exactly one
\* councilMotion entry per motion with a voting period, at its voting-end
\* block; after the dispatch refresh exactly one democracyDispatch entry per
\* queued dispatch.
C2_OneEntryPerMotionAndDispatch ==
  /\ JustApplied("councilMotions") =>
       LET voting == SelectSeq(Unwrap(councilMotions), LAMBDA m : IsSome(m.votes))
       IN  /\ Count("councilMotion") = Len(voting)
           /\ \A k \in DOMAIN voting :
                Cardinality({i \in DOMAIN state :
                               /\ state[i].type = "councilMotion"
                               /\ state[i].blockNumber = Unwrap(voting[k].votes).end}) = 1
  /\ JustApplied("dispatches") =>
       LET queue == Unwrap(dispatches)
       IN  /\ Count("democracyDispatch") = Len(queue)
           /\ \A k \in DOMAIN queue :
                Cardinality({i \in DOMAIN state :
                               /\ state[i].type = "democracyDispatch"
                               /\ state[i].blockNumber = queue[k].at
                               /\ state[i].info = InfoNum(queue[k].index)}) = 1

\* C3: after the referenda refresh the list holds, for every referendum with
\* end e, delay d and index i, exactly one referendumVote entry labelled i at
\* block e - 1 and one pending referendumDispatch entry labelled i at e + d:
\* k referenda give k entries of each kind.
C3_TwoEntriesPerReferendum ==
  JustApplied("referendums") =>
    LET refs == Unwrap(referendums)
    IN  /\ Count("referendumVote") = Len(refs)
        /\ Count("referendumDispatch") = Len(refs)
        /\ \A k \in DOMAIN refs :
             /\ Cardinality({i \in DOMAIN state :
                  /\ state[i].type = "referendumVote"
                  /\ state[i].info = InfoNum(refs[k].index)
                  /\ state[i].blockNumber = refs[k].status.end - 1}) = 1
             /\ Cardinality({i \in DOMAIN state :
                  /\ state[i].type = "referendumDispatch"
                  /\ state[i].info = InfoNum(refs[k].index)
                  /\ state[i].isPending
                  /\ state[i].blockNumber
                       = refs[k].status.end + refs[k].status.delay}) = 1

\* The sub-list of the entries whose category is not among the tags.
Outside(st, tags) == SelectSeq(st, LAMBDA x : x.type \notin tags)

\* C4: a refresh leaves every entry whose category is not among the tags of
\* its pairs in the list, unchanged, as often as before and in the same
\* relative order; so each effect leaves alone the categories of the other
\* five.
C4_OtherCategoriesUntouched ==
  [][(pending' # pending /\ last'.applied) =>
       \A tags \in {PairTags(last'.effect)} :
         /\ tags \subseteq EffectTags(last'.effect)
         /\ Outside(state', tags) = Outside(state, tags)]_vars

\* A refresh with entries of its own was applied to a list that holds
\* entries of two or more other categories.
C4_Witness ==
  /\ last.applied
  /\ Derived(last.effect) # <<>>
  /\ Cardinality({state[i].type : i \in DOMAIN state} \ EffectTags(last.effect)) >= 2

\* The six refreshes applied to the empty list in the order of declaration.
RECURSIVE ApplyAll(_, _)
ApplyAll(st, es) ==
  IF es = <<>>
  THEN st
  ELSE ApplyAll(IF Runs(Head(es)) THEN addFiltered(st, Types(Head(es), Clock)) ELSE st,
                Tail(es))

\* C5: with the best block and the datasets fixed, the refreshes of the
\* different datasets applied in any order end in the same multiset of
\* entries.
C5_OrderIndependent ==
  (pending = {} /\ ~crashed) => BagOf(state) = BagOf(ApplyAll(<<>>, Effects))

\* All six refreshes are done, in an order that left the list arranged
\* differently from the order of declaration.
C5_Witness ==
  /\ pending = {}
  /\ ~crashed
  /\ Len(state) >= 6
  /\ state # ApplyAll(<<>>, Effects)

\* C6: applying the refresh that was just applied once more, with the same
\* best block and dataset, leaves the same entries, none added and none
\* removed (the wall-clock date aside, which the later reading changes).
C6_Idempotent ==
  last.applied =>
    StripDates(addFiltered(state, Types(last.effect, Clock + 1))) = StripDates(state)

\* A refresh with entries of its own was applied, and applying it again at a
\* later time changes dates only.
C6_Witness ==
  /\ last.applied
  /\ Len(Derived(last.effect)) >= 2
  /\ Len(state) > Len(Derived(last.effect))
  /\ addFiltered(state, Types(last.effect, Clock + 1)) # state

\* C7: the list never holds more than one stakingEra entry nor more than
\* one stakingSession entry; after a staking refresh it holds exactly one of
\* each, at bestNumber + (eraLength - eraProgress) labelled activeEra + 1 and
\* at bestNumber + (sessionLength - sessionProgress) labelled currentIndex + 1.
C7_SingleEraAndSession ==
  /\ Count("stakingEra") <= 1
  /\ Count("stakingSession") <= 1
  /\ JustApplied("staking") =>
       LET info == Unwrap(sessionInfo)
           best == Unwrap(bestNumber)
           eras == OfType(state, "stakingEra")
           sessions == OfType(state, "stakingSession")
       IN  /\ Len(eras) = 1
           /\ eras[1].blocks = info.eraLength - info.eraProgress
           /\ eras[1].blockNumber = best + (info.eraLength - info.eraProgress)
           /\ eras[1].info = InfoNum(info.activeEra + 1)
           /\ Len(sessions) = 1
           /\ sessions[1].blocks = info.sessionLength - info.sessionProgress
           /\ sessions[1].blockNumber = best + (info.sessionLength - info.sessionProgress)
           /\ sessions[1].info = InfoNum(info.currentIndex + 1)

\* The staking refresh was applied in the fourth render: the third delivery
\* at the earliest completes its data, so an earlier render may have applied
\* it already, with the constant-duration entries in the list as well.
C7_Witness ==
  /\ JustApplied("staking")
  /\ updates = MaxUpdates + 1
  /\ Count("stakingEra") = 1
  /\ Count("treasurySpend") = 1

\* The constant-duration refresh was attempted with the best block known.
DurationsAttempted == last.effect = "constDurations" /\ (last.applied \/ last.threw)

\* What C8 says of the entry of category t with duration d at best block b.
OneProjectedEntry(t, d, b) ==
  LET es == OfType(state, t)
      elapsed == IF d = 0 THEN b ELSE b % d
  IN  /\ Len(es) = 1
      /\ es[1].blocks = d - elapsed
      /\ es[1].blockNumber = b + (d - elapsed)
      /\ es[1].blockNumber > b
      /\ es[1].blockNumber <= b + d

C9_SlashEntries ==
  JustApplied("staking") =>
    LET info == Unwrap(sessionInfo)
        best == Unwrap(bestNumber)
        keys == Unwrap(slashes)
        s == api.slashDeferDuration
        For(x) == {i \in DOMAIN state :
                     state[i].type = "stakingSlash" /\ state[i].info = InfoNum(x)}
    IN  IF IsSome(s)
        THEN /\ Count("stakingSlash")
                  = Cardinality({k \in DOMAIN keys : Len(keys[k].values) > 0})
             /\ \A k \in DOMAIN keys :
                  IF Len(keys[k].values) > 0
                  THEN /\ Cardinality(For(keys[k].era)) = 1
                       /\ \A i \in For(keys[k].era) :
                            /\ state[i].blocks
                                 = Unwrap(s) * info.eraLength
                                     - ((info.activeEra - keys[k].era - 1) * info.eraLength
                                          + info.eraProgress)
                            /\ state[i].blockNumber = best + state[i].blocks
                  ELSE For(keys[k].era) = {}
        ELSE Count("stakingSlash") = 0

\* The slash of era 5 with a deferral of 2 eras, in era 7 of 100 blocks, 30
\* blocks in, is due in 70 blocks; the key of era 6 has no slash.
C9_Witness ==
  /\ JustApplied("staking")
  /\ api.slashDeferDuration = Some(2)
  /\ Len(Unwrap(slashes)) = 2
  /\ \E i \in DOMAIN state :
       /\ state[i].type = "stakingSlash"
       /\ state[i].info = InfoNum(5)
       /\ state[i].blocks = 70
       /\ state[i].blockNumber = Unwrap(bestNumber) + 70

\* The data the effect requires is absent.
MissingData(e) ==
  \/ bestNumber = None
  \/ e = "dispatches" /\ dispatches = None
  \/ e = "councilMotions" /\ councilMotions = None
  \/ e = "referendums" /\ referendums = None
  \/ e = "scheduled" /\ scheduled = None
  \/ e = "staking" /\ (sessionInfo = None \/ slashes = None)
  \/ e = "staking" /\ sessionInfo # None /\ ~(Unwrap(sessionInfo).sessionLength > 1)

\* C10: an effect whose data is absent throws nothing and leaves the list
\* as it was; the list is empty as long as the best block has not arrived.
C10_MissingDataIsNoOp ==
  /\ [](bestNumber = None => state = <<>>)
  /\ [][(pending' # pending /\ MissingData(last'.effect)) =>
          (state' = state /\ ~crashed' /\ ~last'.threw)]_vars

\* The staking effect ran with a session of length 1 at most, everything
\* else delivered, and left a list that holds entries.
C10_Witness ==
  /\ last = Skipped("staking")
  /\ bestNumber # None
  /\ sessionInfo # None
  /\ slashes # None
  /\ state # <<>>

====
